---- MODULE Spec2Model ----
(***************************************************************************)
(* Model of the onboarding / domain-management API client                  *)
(* (core/clients/domain_mgmt.py) and of the two runner scripts that drive  *)
(* it (core/tests/test_query_model.py, core/tests/test_model_definition.py)*)
(*                                                                         *)
(* Python / JSON values are tagged records:                                *)
(*   None / null  [t |-> "null"]                                           *)
(*   bool         [t |-> "bool", b |-> TRUE]                               *)
(*   str          [t |-> "str",  s |-> "abc"]                              *)
(*   int / float  [t |-> "num",  n |-> 42]                                 *)
(*   list         [t |-> "arr",  a |-> <<...>>]                            *)
(*   dict         [t |-> "obj",  o |-> [key |-> value, ...]]               *)
(* The outcome of a call is [k |-> "ok", v |-> value] or                   *)
(* [k |-> "raise", e |-> exception class name].                            *)
(***************************************************************************)
EXTENDS Integers, Sequences, FiniteSets, TLC

\* ------------------------------------------------------------------------
\* Python values
\* ------------------------------------------------------------------------
None == [t |-> "null"]
JStr(s) == [t |-> "str", s |-> s]
JNum(n) == [t |-> "num", n |-> n]
JBool(b) == [t |-> "bool", b |-> b]
JArr(a) == [t |-> "arr", a |-> a]
JObj(o) == [t |-> "obj", o |-> o]
EmptyDict == JObj(<<>>)
EmptyList == JArr(<<>>)

Ok(v) == [k |-> "ok", v |-> v]
Raise(e) == [k |-> "raise", e |-> e]

\* Python truth value of a value (`if token:`, `if expected_key:`, `not x`).
Truthy(v) ==
    CASE v.t = "null" -> FALSE
      [] v.t = "bool" -> v.b
      [] v.t = "str"  -> v.s # ""
      [] v.t = "num"  -> v.n # 0
      [] v.t = "arr"  -> Len(v.a) > 0
      [] v.t = "obj"  -> DOMAIN v.o # {}

\* dict.get(key, default) on a dict; callers check the receiver is a dict.
DictGet(d, key, default) ==
    IF key \in DOMAIN d.o THEN d.o[key] ELSE default

\* obj.get(key, default) on an arbitrary Python value: only dicts have .get;
\* None, lists, strings and numbers raise AttributeError.
PyGet(v, key, default) ==
    IF v.t = "obj" THEN Ok(DictGet(v, key, default)) ELSE Raise("AttributeError")

\* ------------------------------------------------------------------------
\* Configuration (core/configs/cfg.py)
\* ------------------------------------------------------------------------
ONBOARDING_API_URL == "https://onboarding-dev-1.xflow-in.dev"
ADMIN_EMAIL == "peter.breslin@experienceflow.ai"
ADMIN_PASSWORD == "XFLOW_PWD"
CUSTOMER_EMAIL == "peter.breslin+1@experienceflow.ai"
INDUSTRY_ID == 1915

\* ------------------------------------------------------------------------
\* HTTP responses the remote service can produce
\* ------------------------------------------------------------------------
\* resp.text is one of: the empty string, whitespace only, text that is not
\* JSON, or the serialisation of a JSON value j.
TextEmpty == [k |-> "empty"]
TextBlank == [k |-> "blank"]
TextGarbage == [k |-> "garbage"]
TextJson(j) == [k |-> "json", j |-> j]

TransportFailure == [kind |-> "transport"]
Http(status, text) == [kind |-> "http", status |-> status, text |-> text]

IsSuccess(status) == status \in 200..299

\* ------------------------------------------------------------------------
\* DomainMgmtApiClient._request
\* ------------------------------------------------------------------------
\* f"{x}" for the values the client formats into paths and headers.  A path
\* is <<fixed part, formatted argument>>, a url <<base_url, path>>.
Format(v) ==
    CASE v.t = "str" -> v.s
      [] v.t = "null" -> "None"
      [] v.t = "num" -> IF v.n = INDUSTRY_ID THEN "1915" ELSE "0"
      [] OTHER -> "?"

\* headers: Content-Type only with a JSON body, Authorization only with a
\* truthy token.
BuildHeaders(token, json_data) ==
    (IF json_data # None THEN ("Content-Type" :> "application/json") ELSE <<>>)
    @@ (IF Truthy(token) THEN ("Authorization" :> <<"Token ", Format(token)>>) ELSE <<>>)

BuildRequest(method, path, token, params, json_data) ==
    [method |-> method,
     url |-> <<ONBOARDING_API_URL, path>>,
     params |-> params,
     headers |-> BuildHeaders(token, json_data),
     json |-> json_data]

\* Variant: the request is sent a second time.
SessionRequest_SentTwice(req) == <<req, req>>

\* self.session.request(...): the requests put on the wire for one call.
SessionRequest(req) == <<req>>

\* resp.raise_for_status(), re-raised by the except clause.
RaiseForStatus(resp) ==
    IF resp.kind = "transport" THEN Raise("TransportError")
    ELSE IF ~IsSuccess(resp.status) THEN Raise("HTTPStatusError")
    ELSE Ok(None)

\* `{} if expected_key else None`
EmptyResult(expected_key) ==
    IF Truthy(expected_key) THEN Ok(EmptyDict) ELSE Ok(None)

\* resp.text.strip() is empty
TextStripEmpty(text) == text.k \in {"empty", "blank"}

\* resp.json(): the decoded value, or ValueError.
RespJson(resp) ==
    IF resp.text.k = "json" THEN Ok(resp.text.j) ELSE Raise("ValueError")

\* Variant: `data.get(expected_key)`, without the {} default.
ExtractKey_NoDefault(data, expected_key) ==
    IF Truthy(expected_key) THEN PyGet(data, expected_key.s, None) ELSE Ok(data)

\* `data.get(expected_key, {})` when a key is asked for, else the payload.
ExtractKey(data, expected_key) ==
    IF Truthy(expected_key) THEN PyGet(data, expected_key.s, EmptyDict) ELSE Ok(data)

\* Variant: the decode failure is not caught.
NormalizeBody_DecodeErrorEscapes(resp, expected_key) ==
    IF resp.status = 204 \/ TextStripEmpty(resp.text)
    THEN EmptyResult(expected_key)
    ELSE LET decoded == RespJson(resp)
         IN IF decoded.k = "raise" THEN decoded
            ELSE ExtractKey(decoded.v, expected_key)

\* Lines 96-112: what a 2xx response is turned into.
NormalizeBody(resp, expected_key) ==
    IF resp.status = 204 \/ TextStripEmpty(resp.text)
    THEN EmptyResult(expected_key)
    ELSE LET decoded == RespJson(resp)
         IN IF decoded.k = "raise" THEN EmptyResult(expected_key)
            ELSE ExtractKey(decoded.v, expected_key)

\* The whole helper: the requests sent and the value returned / exception raised.
_request(method, path, token, params, json_data, expected_key, resp) ==
    LET req == BuildRequest(method, path, token, params, json_data)
        st == RaiseForStatus(resp)
    IN [sent |-> SessionRequest(req),
        out |-> IF st.k = "raise" THEN st ELSE NormalizeBody(resp, expected_key)]

\* ------------------------------------------------------------------------
\* Authentication.  self is [_auth_token, _customer_auth_token]; a method
\* yields the new self, the requests sent and the outcome.
\* ------------------------------------------------------------------------
NewClient == [_auth_token |-> None, _customer_auth_token |-> None]

\* `token = data.get("token"); if not token: raise RuntimeError(...)`
TokenFrom(out) ==
    IF out.k = "raise" THEN out
    ELSE LET got == PyGet(out.v, "token", None)
         IN IF got.k = "raise" THEN got
            ELSE IF ~Truthy(got.v) THEN Raise("RuntimeError")
            ELSE got

\* Variant: a successful sign-in also drops the cached customer token.
authenticate_ResetsCustomer(self, resp) ==
    LET payload == JObj([email |-> JStr(ADMIN_EMAIL), password |-> JStr(ADMIN_PASSWORD)])
        r == _request("post", <<"/api/user/signin", "">>, None, None, payload, None, resp)
        tok == TokenFrom(r.out)
    IN [self |-> IF tok.k = "ok"
                 THEN [_auth_token |-> tok.v, _customer_auth_token |-> None]
                 ELSE self,
        sent |-> r.sent,
        out |-> IF tok.k = "ok" THEN Ok(None) ELSE tok]

authenticate(self, resp) ==
    LET payload == JObj([email |-> JStr(ADMIN_EMAIL), password |-> JStr(ADMIN_PASSWORD)])
        r == _request("post", <<"/api/user/signin", "">>, None, None, payload, None, resp)
        tok == TokenFrom(r.out)
    IN [self |-> IF tok.k = "ok" THEN [self EXCEPT !._auth_token = tok.v] ELSE self,
        sent |-> r.sent,
        out |-> IF tok.k = "ok" THEN Ok(None) ELSE tok]

generate_customer_token(self, customer_email, resp) ==
    LET r == _request("post", <<"/api/onboarding/partner/generate-client-token", "">>,
                      self._auth_token, None, JObj([email |-> JStr(customer_email)]),
                      None, resp)
        tok == TokenFrom(r.out)
    IN [self |-> IF tok.k = "ok" THEN [self EXCEPT !._customer_auth_token = tok.v] ELSE self,
        sent |-> r.sent,
        out |-> IF tok.k = "ok" THEN Ok(None) ELSE tok]

\* ------------------------------------------------------------------------
\* Resource accessors: each is one _request with the partner token.
\* ------------------------------------------------------------------------
Returning(self, r) == [self |-> self, sent |-> r.sent, out |-> r.out]

list_industries(self, resp) ==
    Returning(self, _request("get", <<"/api/industry", "">>, self._auth_token,
                             None, None, JStr("data"), resp))

list_industry_categories(self, resp) ==
    Returning(self, _request("get", <<"/api/industry/category", "">>, self._auth_token,
                             None, None, JStr("data"), resp))

get_industry_details(self, industry_id, resp) ==
    Returning(self, _request("get", <<"/api/industry/", Format(industry_id)>>,
                             self._auth_token, None, None, JStr("data"), resp))

\* Variant: the customer token is sent as the bearer.
list_kpis_CustomerBearer(self, industry_id, resp) ==
    Returning(self, _request("get", <<"/api/industry-all-kpi/", Format(industry_id)>>,
                             self._customer_auth_token, JObj([type |-> JNum(1)]), None,
                             None, resp))

list_kpis(self, industry_id, resp) ==
    Returning(self, _request("get", <<"/api/industry-all-kpi/", Format(industry_id)>>,
                             self._auth_token, JObj([type |-> JNum(1)]), None, None, resp))

list_functions(self, resp) ==
    Returning(self, _request("get", <<"/api/function", "">>, self._auth_token,
                             None, None, JStr("data"), resp))

list_contexts(self, resp) ==
    Returning(self, _request("get", <<"/api/contextTypes", "">>, self._auth_token,
                             None, None, JStr("data"), resp))

industry_metric_functions(self, industry_id, resp) ==
    Returning(self, _request("get", <<"/api/industry-metric/function/", Format(industry_id)>>,
                             self._auth_token, None, None, JStr("data"), resp))

get_dictionary_list(self, function_code, resp) ==
    Returning(self, _request("get", <<"/api/domains/dictionaryList/", Format(function_code)>>,
                             self._auth_token, None, None, JStr("data"), resp))

get_dictionary(self, function_code, resp) ==
    Returning(self, _request("post", <<"/api/domains/getDictionary", "">>, self._auth_token,
                             None, JObj([functionCode |-> function_code]), None, resp))

\* ------------------------------------------------------------------------
\* Runner helpers shared by the two scripts
\* ------------------------------------------------------------------------
\* The first exception among a sequence of outcomes evaluated left to right,
\* or Ok(None) when none raises.
RECURSIVE FirstRaise(_)
FirstRaise(outs) ==
    IF outs = <<>> THEN Ok(None)
    ELSE IF Head(outs).k = "raise" THEN Head(outs)
    ELSE FirstRaise(Tail(outs))

\* d[key] on a dict: KeyError when the key is missing.
Subscript(d, key) ==
    IF d.t # "obj" THEN Raise("TypeError")
    ELSE IF key \in DOMAIN d.o THEN Ok(d.o[key]) ELSE Raise("KeyError")

\* len(x) of a list or dict; other values occurring here have no len().
PyLen(v) ==
    CASE v.t = "arr" -> Ok(JNum(Len(v.a)))
      [] v.t = "obj" -> Ok(JNum(Cardinality(DOMAIN v.o)))
      [] OTHER -> Raise("TypeError")

\* Iterating a value: a list yields its items, a dict its keys (only the
\* empty dict occurs here), anything else is not iterable.
Items(v) ==
    IF v.t = "arr" THEN Ok(v.a)
    ELSE IF v = EmptyDict THEN Ok(<<>>)
    ELSE Raise("TypeError")

\* All orders in which a set can be iterated.
Orders(S) ==
    {f \in [1..Cardinality(S) -> S] : \A i, j \in 1..Cardinality(S) : f[i] = f[j] => i = j}

\* Variant: list(xs), every value kept.
FromKeys_KeepsDuplicates(xs) == xs

\* list(dict.fromkeys(xs)): distinct values in order of first appearance.
RECURSIVE FromKeys(_)
FromKeys(xs) ==
    IF xs = <<>> THEN <<>>
    ELSE LET front == FromKeys(SubSeq(xs, 1, Len(xs) - 1))
             x == xs[Len(xs)]
         IN IF \E i \in 1..Len(front) : front[i] = x THEN front ELSE Append(front, x)

\* `[r for r in records if r.get("typeName") == "Context"]`
RECURSIVE FilterContexts(_)
FilterContexts(records) ==
    IF records = <<>> THEN <<>>
    ELSE LET r == Head(records)
             rest == FilterContexts(Tail(records))
         IN IF DictGet(r, "typeName", None) = JStr("Context") THEN <<r>> \o rest ELSE rest

\* ctx.get("functionCode") for every context, in order.
FunctionCodes(ctxs) == [i \in 1..Len(ctxs) |-> DictGet(ctxs[i], "functionCode", None)]

\* Variant: both scripts iterate set(function_codes).
CodeOrders_AlwaysSet(which, codes) == Orders({codes[i] : i \in 1..Len(codes)})

\* The sequences in which the dictionary loop may visit the codes:
\* list(dict.fromkeys(codes)) in test_query_model.py, the iteration order of
\* set(codes) in test_model_definition.py.
CodeOrders(which, codes) ==
    IF which = "query_model" THEN {FromKeys(codes)}
    ELSE Orders({codes[i] : i \in 1..Len(codes)})

\* ------------------------------------------------------------------------
\* test_model_definition.py: Pass A (KPI profiles)
\* ------------------------------------------------------------------------
FORMULA_JSON == "{\"formula\": {\"description\": \"count\", \"data_source\": {\"table\": \"stories\"}}}"
FormulaDoc ==
    JObj([formula |-> JObj([description |-> JStr("count"),
                            data_source |-> JObj([table |-> JStr("stories")])])])

\* json.loads(x): TypeError for a non-string, JSONDecodeError for text that is
\* not JSON, the decoded document otherwise.
JsonLoads(v) ==
    IF v.t # "str" THEN Raise("TypeError")
    ELSE CASE v.s = "{}" -> Ok(EmptyDict)
           [] v.s = "null" -> Ok(None)
           [] v.s = FORMULA_JSON -> Ok(FormulaDoc)
           [] OTHER -> Raise("JSONDecodeError")

\* float(x)
ToFloat(v) ==
    CASE v.t = "num" -> Ok(v)
      [] v.t = "str" -> IF v.s = "42" THEN Ok(JNum(42)) ELSE Raise("ValueError")
      [] OTHER -> Raise("TypeError")

\* x.lower(): only strings have it.
Lower(v) ==
    IF v.t # "str" THEN Raise("AttributeError")
    ELSE Ok(JStr(CASE v.s = "More" -> "more" [] v.s = "MORE" -> "more" [] OTHER -> v.s))

\* `{attr.get("attributeName"): attr.get("defaultValue") for attr in ...}`:
\* a later entry for the same name replaces an earlier one.
RECURSIVE FoldAttributes(_)
FoldAttributes(attributes) ==
    IF attributes = <<>> THEN EmptyDict
    ELSE LET front == FoldAttributes(SubSeq(attributes, 1, Len(attributes) - 1))
             attr == attributes[Len(attributes)]
             name == DictGet(attr, "attributeName", None).s
         IN JObj((name :> DictGet(attr, "defaultValue", None)) @@ front.o)

\* try: json.loads(kpi.get("data", "{}")) except json.JSONDecodeError: {}
DataDetails(kpi) ==
    LET loaded == JsonLoads(DictGet(kpi, "data", JStr("{}")))
    IN IF loaded = Raise("JSONDecodeError") THEN Ok(EmptyDict) ELSE loaded

\* The "definition" block of a profile.
Definition(data_details) ==
    LET formula == PyGet(data_details, "formula", EmptyDict)
        description == IF formula.k = "raise" THEN formula
                       ELSE PyGet(formula.v, "description", JStr("N/A"))
        data_source == IF formula.k = "raise" THEN formula
                       ELSE PyGet(formula.v, "data_source", EmptyDict)
        table == IF data_source.k = "raise" THEN data_source
                 ELSE PyGet(data_source.v, "table", None)
        err == FirstRaise(<<description, table>>)
    IN IF err.k = "raise" THEN err
       ELSE Ok(JObj([description |-> description.v, source_table |-> table.v]))

\* "goal": float(attrs.get("Goal")) if attrs.get("Goal") is not None else None
Goal(attrs) ==
    IF DictGet(attrs, "Goal", None) # None THEN ToFloat(DictGet(attrs, "Goal", None))
    ELSE Ok(None)

\* "is_higher_better": attrs.get("GI", "").lower() == "more"
IsHigherBetter(attrs) ==
    LET low == Lower(DictGet(attrs, "GI", JStr("")))
    IN IF low.k = "raise" THEN low ELSE Ok(JBool(low.v = JStr("more")))

\* The "business_rules" block of a profile.
BusinessRules(attrs) ==
    LET goal == Goal(attrs)
        better == IsHigherBetter(attrs)
        err == FirstRaise(<<goal, better>>)
    IN IF err.k = "raise" THEN err
       ELSE Ok(JObj([goal |-> goal.v,
                     is_higher_better |-> better.v,
                     unit_of_measure |-> DictGet(attrs, "UOM Display Name", None)]))

\* One iteration of the KPI loop: the profile stored under kpi["id"].  The
\* attributes are folded first, then data is parsed, then the profile is
\* assembled, and kpi["id"] is subscripted last.
KpiProfile(kpi) ==
    LET attributes == Items(DictGet(kpi, "attributes", EmptyList))
        details == IF attributes.k = "raise" THEN attributes ELSE DataDetails(kpi)
        definition == IF details.k = "raise" THEN details ELSE Definition(details.v)
        rules == IF definition.k = "raise" THEN definition
                 ELSE BusinessRules(FoldAttributes(attributes.v))
        id == IF rules.k = "raise" THEN rules ELSE Subscript(kpi, "id")
    IN IF id.k = "raise" THEN id
       ELSE Ok(JObj([kpi_id |-> DictGet(kpi, "id", None),
                     kpi_name |-> DictGet(kpi, "name", None),
                     display_name |-> DictGet(kpi, "displayName", None),
                     category |-> DictGet(kpi, "category", None),
                     definition |-> definition.v,
                     business_rules |-> rules.v]))

\* The KPI loop of test_model_definition.py: kpi_map, or the first exception.
RECURSIVE KpiDefinitions(_)
KpiDefinitions(kpi_list) ==
    IF kpi_list = <<>> THEN Ok(EmptyDict)
    ELSE LET front == KpiDefinitions(SubSeq(kpi_list, 1, Len(kpi_list) - 1))
             kpi == kpi_list[Len(kpi_list)]
             profile == IF front.k = "raise" THEN front ELSE KpiProfile(kpi)
         IN IF profile.k = "raise" THEN profile
            ELSE Ok(JObj((kpi.o["id"].n :> profile.v) @@ front.v.o))

\* ------------------------------------------------------------------------
\* test_query_model.py: KPI summary, function join, roles, contexts
\* ------------------------------------------------------------------------
\* One entry of the kpi_map comprehension (lines 41-48).
KpiSummary(kpi) ==
    LET fn == Subscript(kpi, "functionName")
        name == Subscript(kpi, "name")
        count == PyLen(DictGet(kpi, "metric_attributes", EmptyList))
        id == Subscript(kpi, "id")
        err == FirstRaise(<<id, fn, name, count>>)
    IN IF err.k = "raise" THEN err
       ELSE Ok(JObj([functionName |-> fn.v, name |-> name.v, metric_attributes |-> count.v]))

RECURSIVE KpiSummaries(_)
KpiSummaries(kpi_list) ==
    IF kpi_list = <<>> THEN Ok(EmptyDict)
    ELSE LET front == KpiSummaries(SubSeq(kpi_list, 1, Len(kpi_list) - 1))
             kpi == kpi_list[Len(kpi_list)]
             summary == IF front.k = "raise" THEN front ELSE KpiSummary(kpi)
         IN IF summary.k = "raise" THEN summary
            ELSE Ok(JObj((kpi.o["id"].n :> summary.v) @@ front.v.o))

\* `{kpi["functionName"] for kpi in kpis}`
FunctionNames(kpi_list) ==
    IF \E i \in 1..Len(kpi_list) : "functionName" \notin DOMAIN kpi_list[i].o
    THEN Raise("KeyError")
    ELSE Ok({kpi_list[i].o["functionName"] : i \in 1..Len(kpi_list)})

\* functions_by_name: every blob's industry_function list appended under the
\* blob's name (lines 58-60).
RECURSIVE FunctionsByName(_)
FunctionsByName(blobs) ==
    IF blobs = <<>> THEN Ok(<<>>)
    ELSE LET front == FunctionsByName(SubSeq(blobs, 1, Len(blobs) - 1))
             blob == blobs[Len(blobs)]
             name == IF front.k = "raise" THEN front ELSE Subscript(blob, "name")
             items == IF name.k = "raise" THEN name
                      ELSE Items(DictGet(blob, "industry_function", EmptyList))
         IN IF items.k = "raise" THEN items
            ELSE LET old == IF name.v \in DOMAIN front.v THEN front.v[name.v] ELSE <<>>
                 IN Ok((name.v :> (old \o items.v)) @@ front.v)

fields ==
    <<"id", "industry_function_map_id", "function_name", "industry_name", "subType",
      "name", "description", "useCaseId">>
FieldSet == {fields[i] : i \in 1..Len(fields)}

\* `{field: item[field] for field in fields}`
Project(item) ==
    IF item.t # "obj" THEN Raise("TypeError")
    ELSE IF ~(FieldSet \subseteq DOMAIN item.o) THEN Raise("KeyError")
    ELSE Ok(JObj([f \in FieldSet |-> item.o[f]]))

RECURSIVE ProjectAll(_)
ProjectAll(items) ==
    IF items = <<>> THEN Ok(<<>>)
    ELSE LET first == Project(Head(items))
             rest == IF first.k = "raise" THEN first ELSE ProjectAll(Tail(items))
         IN IF rest.k = "raise" THEN rest ELSE Ok(<<first.v>> \o rest.v)

\* Variant: functions_by_name[fn] on a plain dict, KeyError for a name
\* without a group.
RECURSIVE FunctionInfo_MissRaises(_, _)
FunctionInfo_MissRaises(order, by_name) ==
    IF order = <<>> THEN Ok(<<>>)
    ELSE LET fn == Head(order)
             first == IF fn \in DOMAIN by_name THEN ProjectAll(by_name[fn])
                      ELSE Raise("KeyError")
             rest == IF first.k = "raise" THEN first
                     ELSE FunctionInfo_MissRaises(Tail(order), by_name)
         IN IF rest.k = "raise" THEN rest ELSE Ok(first.v \o rest.v)

\* function_info (lines 74-78): for each name, in the order the set of names
\* is iterated, the projected items of functions_by_name.get(fn, []).
RECURSIVE FunctionInfo(_, _)
FunctionInfo(order, by_name) ==
    IF order = <<>> THEN Ok(<<>>)
    ELSE LET fn == Head(order)
             first == ProjectAll(IF fn \in DOMAIN by_name THEN by_name[fn] ELSE <<>>)
             rest == IF first.k = "raise" THEN first ELSE FunctionInfo(Tail(order), by_name)
         IN IF rest.k = "raise" THEN rest ELSE Ok(first.v \o rest.v)

\* trimmed_roles (lines 86-93); only whether it raises matters afterwards.
RECURSIVE TrimRoles(_)
TrimRoles(roles) ==
    IF roles = <<>> THEN Ok(<<>>)
    ELSE LET r == Head(roles)
             err == FirstRaise(<<Subscript(r, "id"), Subscript(r, "levelName"),
                                 Subscript(r, "role_display_name")>>)
             rest == IF err.k = "raise" THEN err ELSE TrimRoles(Tail(roles))
         IN IF rest.k = "raise" THEN rest
            ELSE Ok(<<JObj([id |-> r.o["id"], levelName |-> r.o["levelName"],
                            role_display_name |-> r.o["role_display_name"]])>> \o rest.v)

\* context_summaries (lines 104-120).
RECURSIVE ContextSummaries(_)
ContextSummaries(ctxs) ==
    IF ctxs = <<>> THEN Ok(<<>>)
    ELSE LET ctx == Head(ctxs)
             err == FirstRaise(<<Subscript(ctx, "id"), Subscript(ctx, "functionName"),
                                 Subscript(ctx, "typeName"),
                                 PyLen(DictGet(ctx, "metric_attributes", EmptyList))>>)
             rest == IF err.k = "raise" THEN err ELSE ContextSummaries(Tail(ctxs))
         IN IF rest.k = "raise" THEN rest
            ELSE Ok(<<JObj([id |-> ctx.o["id"],
                            name |-> DictGet(ctx, "name", None),
                            functionName |-> ctx.o["functionName"],
                            typeName |-> ctx.o["typeName"],
                            metric_attributes_count |->
                                PyLen(DictGet(ctx, "metric_attributes", EmptyList)).v,
                            displayName |-> DictGet(ctx, "displayName", None),
                            description |-> DictGet(ctx, "description", None),
                            table |-> DictGet(ctx, "table", None),
                            functionCode |-> DictGet(ctx, "functionCode", None),
                            attribute |-> DictGet(ctx, "attribute", None),
                            aggregation |-> DictGet(ctx, "aggregation", None),
                            compute_frequency |-> DictGet(ctx, "compute_frequency", None)])>>
                    \o rest.v)

\* The dictionary loop body of test_query_model.py (lines 132-153): d["id"]
\* and d["name"] are required, as are attr["id"] and attr["name"].  The
\* trimmed list is printed only; its table names stand for it here.
RECURSIVE TrimDictionary(_)
TrimDictionary(ds) ==
    IF ds = <<>> THEN Ok(<<>>)
    ELSE LET d == Head(ds)
             attrs == IF d.t = "obj" THEN Items(DictGet(d, "entity_attributes", EmptyList))
                      ELSE Raise("TypeError")
             err == FirstRaise(<<Subscript(d, "id"), Subscript(d, "name"), attrs>>)
             bad == err.k = "ok" /\ \E i \in 1..Len(attrs.v) :
                        FirstRaise(<<Subscript(attrs.v[i], "id"),
                                     Subscript(attrs.v[i], "name")>>).k = "raise"
             rest == IF err.k = "raise" THEN err
                     ELSE IF bad THEN Raise("KeyError")
                     ELSE TrimDictionary(Tail(ds))
         IN IF rest.k = "raise" THEN rest ELSE Ok(<<d.o["name"]>> \o rest.v)

\* ------------------------------------------------------------------------
\* test_model_definition.py: context map and dictionary reshaping
\* ------------------------------------------------------------------------
\* context_map (lines 96-104): only ctx["id"] is required.
RECURSIVE ContextMap(_)
ContextMap(ctxs) ==
    IF ctxs = <<>> THEN Ok(EmptyDict)
    ELSE LET front == ContextMap(SubSeq(ctxs, 1, Len(ctxs) - 1))
             ctx == ctxs[Len(ctxs)]
             id == IF front.k = "raise" THEN front ELSE Subscript(ctx, "id")
         IN IF id.k = "raise" THEN id
            ELSE Ok(JObj((id.v.n :> JObj([context_id |-> DictGet(ctx, "id", None),
                                          context_name |-> DictGet(ctx, "name", None),
                                          source_column_name |-> DictGet(ctx, "attribute", None)]))
                         @@ front.v.o))

\* dict_map (lines 120-134): every field is read with .get.  The list is
\* printed / saved only; its table names stand for it here.
RECURSIVE DictMap(_)
DictMap(ds) ==
    IF ds = <<>> THEN Ok(<<>>)
    ELSE LET d == Head(ds)
             attrs == IF d.t = "obj" THEN Items(DictGet(d, "entity_attributes", EmptyList))
                      ELSE Raise("AttributeError")
             rest == IF attrs.k = "raise" THEN attrs ELSE DictMap(Tail(ds))
         IN IF rest.k = "raise" THEN rest ELSE Ok(<<DictGet(d, "name", None)>> \o rest.v)

\* ------------------------------------------------------------------------
\* State
\* ------------------------------------------------------------------------
VARIABLES
    _auth_token,            \* self._auth_token
    _customer_auth_token,   \* self._customer_auth_token
    last,                   \* the most recent client call: its operation, argument,
                            \* the response the service gave, the requests sent,
                            \* the outcome, and the cached tokens before the call
    script,                 \* which runner script is executing ("none": a free caller)
    pc,                     \* the runner's position
    exit_code,              \* process exit status once the runner has ended
    http_log,               \* runner: client calls issued so far, in order
    kpis,                   \* runner: `kpis`
    kpi_map,                \* runner: `kpi_map`
    function_info,          \* runner: `function_info`
    functions,              \* runner: `functions`
    contexts,               \* runner: `contexts`
    context_map,            \* runner: `context_map` (`context_summaries` in test_query_model.py)
    f_codes,                \* runner: codes the dictionary loop iterates over
    f_next                  \* runner: index of the next code to fetch

cvars == <<_auth_token, _customer_auth_token, last>>
rvars == <<script, pc, exit_code, http_log, kpis, kpi_map, function_info, functions,
           contexts, context_map, f_codes, f_next>>
vars == <<_auth_token, _customer_auth_token, last, script, pc, exit_code, http_log,
          kpis, kpi_map, function_info, functions, contexts, context_map, f_codes,
          f_next>>

Self == [_auth_token |-> _auth_token, _customer_auth_token |-> _customer_auth_token]

\* ------------------------------------------------------------------------
\* What the remote service may answer
\* ------------------------------------------------------------------------
TokenValues == {JStr("t1"), JStr("t2"), JStr(""), None}

JsonPayloads ==
    {JObj([token |-> tv]) : tv \in TokenValues}
    \cup {EmptyDict, EmptyList, None,
          JObj([data |-> JArr(<<JStr("x")>>)]),
          JObj([data |-> EmptyDict, token |-> JStr("t1")])}

Texts == {TextEmpty, TextBlank, TextGarbage} \cup {TextJson(j) : j \in JsonPayloads}
\* Every body with status 200; 204 with and without a body; two error statuses.
Responses ==
    {TransportFailure}
    \cup {Http(200, tx) : tx \in Texts}
    \cup {Http(204, TextEmpty), Http(204, TextJson(JObj([token |-> JStr("t1")]))),
          Http(401, TextJson(JObj([token |-> JStr("t1")]))), Http(500, TextEmpty)}

\* ------------------------------------------------------------------------
\* A free caller of the client (specification Spec)
\* ------------------------------------------------------------------------
NoCall == [op |-> "new", arg |-> None, resp |-> TransportFailure, sent |-> <<>>,
           out |-> Ok(None), pre |-> NewClient]

RunnerIdle ==
    /\ script = "none"
    /\ pc = "idle"
    /\ exit_code = -1
    /\ http_log = <<>>
    /\ kpis = None
    /\ kpi_map = None
    /\ function_info = None
    /\ functions = None
    /\ contexts = None
    /\ context_map = None
    /\ f_codes = <<>>
    /\ f_next = 1

\* DomainMgmtApiClient.__init__
Init ==
    /\ _auth_token = NewClient._auth_token
    /\ _customer_auth_token = NewClient._customer_auth_token
    /\ last = NoCall
    /\ RunnerIdle

\* The effect of one client method call r on the client state.
Apply(op, arg, resp, r) ==
    /\ _auth_token' = r.self._auth_token
    /\ _customer_auth_token' = r.self._customer_auth_token
    /\ last' = [op |-> op, arg |-> arg, resp |-> resp, sent |-> r.sent,
                out |-> r.out, pre |-> Self]

IndustryIds == {JNum(INDUSTRY_ID)}
FunctionCodeArgs == {JStr("A"), None}
Methods == {"get", "delete"}
ExpectedKeys == {None, JStr(""), JStr("data")}

CallAuthenticate ==
    \E resp \in Responses :
        /\ Apply("authenticate", None, resp, authenticate(Self, resp))
        /\ UNCHANGED rvars

CallGenerateCustomerToken ==
    \E resp \in Responses :
        /\ Apply("generate_customer_token", JStr(CUSTOMER_EMAIL), resp,
                 generate_customer_token(Self, CUSTOMER_EMAIL, resp))
        /\ UNCHANGED rvars

CallListIndustries ==
    \E resp \in Responses :
        /\ Apply("list_industries", None, resp, list_industries(Self, resp))
        /\ UNCHANGED rvars

CallListIndustryCategories ==
    \E resp \in Responses :
        /\ Apply("list_industry_categories", None, resp,
                 list_industry_categories(Self, resp))
        /\ UNCHANGED rvars

CallGetIndustryDetails ==
    \E resp \in Responses, id \in IndustryIds :
        /\ Apply("get_industry_details", id, resp, get_industry_details(Self, id, resp))
        /\ UNCHANGED rvars

CallListKpis ==
    \E resp \in Responses, id \in IndustryIds :
        /\ Apply("list_kpis", id, resp, list_kpis(Self, id, resp))
        /\ UNCHANGED rvars

CallListFunctions ==
    \E resp \in Responses :
        /\ Apply("list_functions", None, resp, list_functions(Self, resp))
        /\ UNCHANGED rvars

CallListContexts ==
    \E resp \in Responses :
        /\ Apply("list_contexts", None, resp, list_contexts(Self, resp))
        /\ UNCHANGED rvars

CallIndustryMetricFunctions ==
    \E resp \in Responses, id \in IndustryIds :
        /\ Apply("industry_metric_functions", id, resp,
                 industry_metric_functions(Self, id, resp))
        /\ UNCHANGED rvars

CallGetDictionaryList ==
    \E resp \in Responses, code \in FunctionCodeArgs :
        /\ Apply("get_dictionary_list", code, resp, get_dictionary_list(Self, code, resp))
        /\ UNCHANGED rvars

CallGetDictionary ==
    \E resp \in Responses, code \in FunctionCodeArgs :
        /\ Apply("get_dictionary", code, resp, get_dictionary(Self, code, resp))
        /\ UNCHANGED rvars

\* _request called directly, with any method and expected_key, with or
\* without the partner token as the bearer.
CallRequest ==
    \E resp \in Responses, method \in Methods, key \in ExpectedKeys,
       token \in {None, _auth_token} :
        /\ Apply("_request", [method |-> method, key |-> key, token |-> token], resp,
                 Returning(Self, _request(method, <<"/api/any", "">>, token, None, None,
                                          key, resp)))
        /\ UNCHANGED rvars

Next ==
    \/ CallAuthenticate
    \/ CallGenerateCustomerToken
    \/ CallListIndustries
    \/ CallListIndustryCategories
    \/ CallGetIndustryDetails
    \/ CallListKpis
    \/ CallListFunctions
    \/ CallListContexts
    \/ CallIndustryMetricFunctions
    \/ CallGetDictionaryList
    \/ CallGetDictionary
    \/ CallRequest

Spec == Init /\ [][Next]_vars

\* ------------------------------------------------------------------------
\* Properties of the client (specification Spec)
\* ------------------------------------------------------------------------
GatewayOps ==
    {"list_industries", "list_industry_categories", "get_industry_details", "list_kpis",
     "list_functions", "list_contexts", "industry_metric_functions",
     "get_dictionary_list", "get_dictionary"}
\* The accessors that ask for the "data" envelope key, and those that do not.
EnvelopeOps == GatewayOps \ {"list_kpis", "get_dictionary"}
AuthOps == {"authenticate", "generate_customer_token"}

LastIs2xx == last.resp.kind = "http" /\ IsSuccess(last.resp.status)
LastIsError == last.resp.kind = "http" /\ ~IsSuccess(last.resp.status)
\* The 2xx response has no usable body: 204, empty, whitespace, or not JSON.
LastHasNoBody ==
    LastIs2xx /\ (last.resp.status = 204 \/ last.resp.text.k \in {"empty", "blank", "garbage"})
\* The 2xx response decodes to the JSON value last.resp.text.j.
LastDecodes == LastIs2xx /\ last.resp.status # 204 /\ last.resp.text.k = "json"
\* The 2xx response is a JSON object carrying a non-empty token.
LastCarriesToken ==
    /\ LastDecodes
    /\ last.resp.text.j.t = "obj"
    /\ "token" \in DOMAIN last.resp.text.j.o
    /\ Truthy(last.resp.text.j.o["token"])
\* An expected_key is given when `if expected_key` takes it as such.
KeyGiven(key) == key # None /\ key # JStr("")

\* C1: generate_customer_token on a client with no cached partner token
\* fails and sends no HTTP request.
C1_TokenGating ==
    (last.op = "generate_customer_token" /\ last.pre._auth_token = None)
        => (last.out.k = "raise" /\ last.sent = <<>>)

\* C2: a 2xx sign-in / client-token response without a token makes the call
\* fail with the dedicated error (RuntimeError in this code base) and leaves
\* the track's cached token as it was.
C2_NoTokenIsAuthError ==
    (last.op \in AuthOps /\ LastIs2xx /\ ~LastCarriesToken)
        => /\ last.out = Raise("RuntimeError")
           /\ _auth_token = last.pre._auth_token
           /\ _customer_auth_token = last.pre._customer_auth_token

\* C3: a 2xx response (204 included) with an empty, blank or non-JSON body
\* makes _request return None without an expected_key and {} with one; the
\* non-JSON case returns what the empty case returns and nothing is raised.
C3_EmptyBodyTolerance ==
    LastHasNoBody =>
        /\ last.op = "_request" =>
             last.out = IF KeyGiven(last.arg.key) THEN Ok(EmptyDict) ELSE Ok(None)
        /\ last.op \in EnvelopeOps => last.out = Ok(EmptyDict)
        /\ last.op \in GatewayOps \ EnvelopeOps => last.out = Ok(None)

C3_Witness ==
    /\ last.op = "_request"
    /\ last.arg.method = "delete"
    /\ last.arg.key = JStr("data")
    /\ last.resp = Http(200, TextGarbage)
    /\ last.out = Ok(EmptyDict)

\* C4: on a non-2xx response _request and every accessor raise the HTTP
\* status error after exactly one request.
C4_StatusErrorNoRetry ==
    (last.op \in GatewayOps \cup {"_request"} /\ LastIsError)
        => (last.out = Raise("HTTPStatusError") /\ Len(last.sent) = 1)

C4_Witness ==
    /\ last.op = "get_dictionary"
    /\ last.resp.kind = "http"
    /\ last.resp.status = 500
    /\ last.out = Raise("HTTPStatusError")
    /\ Len(last.sent) = 1

\* C5 as stated: with an expected_key every decoded payload yields its value
\* at that key, or {} when the key is absent; without one the whole payload.
C5_KeyExtractionAnyPayload ==
    (last.op = "_request" /\ LastDecodes) =>
        LET j == last.resp.text.j
            key == last.arg.key
        IN IF KeyGiven(key)
           THEN /\ last.out.k = "ok"
                /\ j.t = "obj" /\ key.s \in DOMAIN j.o => last.out.v = j.o[key.s]
                /\ ~(j.t = "obj" /\ key.s \in DOMAIN j.o) => last.out.v = EmptyDict
           ELSE last.out = Ok(j)

\* C5 amended: the extraction holds for decoded payloads that are JSON
\* objects; a decoded payload of any other type with an expected_key raises
\* AttributeError; without an expected_key the payload is returned unchanged.
C5_KeyExtractionObjects ==
    (last.op = "_request" /\ LastDecodes) =>
        LET j == last.resp.text.j
            key == last.arg.key
        IN IF KeyGiven(key)
           THEN IF j.t = "obj"
                THEN last.out = Ok(IF key.s \in DOMAIN j.o THEN j.o[key.s] ELSE EmptyDict)
                ELSE last.out = Raise("AttributeError")
           ELSE last.out = Ok(j)

C5_Witness ==
    /\ last.op = "_request"
    /\ last.arg.key = JStr("data")
    /\ last.resp = Http(200, TextJson(JObj([data |-> JArr(<<JStr("x")>>)])))
    /\ last.out = Ok(JArr(<<JStr("x")>>))

\* The Authorization header values a request carries (none or one).
BearerOf(req) == {req.headers[h] : h \in DOMAIN req.headers \cap {"Authorization"}}

\* C10: every accessor sends the cached partner token as its bearer (no
\* Authorization header when none is cached) and never the customer token.
C10_PartnerTokenEverywhere ==
    last.op \in GatewayOps =>
        \A i \in 1..Len(last.sent) :
            /\ BearerOf(last.sent[i]) =
                 IF _auth_token = None THEN {} ELSE {<<"Token ", _auth_token.s>>}
            /\ (_customer_auth_token # None /\ _customer_auth_token # _auth_token)
                 => <<"Token ", _customer_auth_token.s>> \notin BearerOf(last.sent[i])

C10_Witness ==
    /\ last.op = "list_kpis"
    /\ _auth_token = JStr("t1")
    /\ _customer_auth_token = JStr("t2")
    /\ Len(last.sent) = 1
    /\ BearerOf(last.sent[1]) = {<<"Token ", "t1">>}

\* ------------------------------------------------------------------------
\* The runner scripts (specification SpecRunner)
\* ------------------------------------------------------------------------
\* Bounds on the lists the service returns.
MaxKpis == 2
MaxContexts == 3

SeqsUpTo(S, n) == UNION {[1..k -> S] : k \in 0..n}

Attr(name, value) == JObj([attributeName |-> JStr(name), defaultValue |-> value])

KpiRecords ==
    { \* no attributes key, no data key
      JObj([id |-> JNum(1), name |-> JStr("k1"), functionName |-> JStr("F")]),
      \* the scenario of the specification
      JObj([id |-> JNum(7), name |-> JStr("sc"), displayName |-> JStr("Stories Closed"),
            category |-> JStr("Delivery"), functionName |-> JStr("F"),
            data |-> JStr(FORMULA_JSON),
            attributes |-> JArr(<<Attr("Goal", JStr("42")), Attr("GI", JStr("More"))>>)]),
      \* null Goal, malformed data
      JObj([id |-> JNum(3), name |-> JStr("k3"), functionName |-> JStr("G"),
            data |-> JStr("oops"),
            attributes |-> JArr(<<Attr("Goal", None), Attr("UOM Display Name", JStr("pts")),
                                  Attr("GI", JStr("less"))>>)]),
      \* GI present with a null defaultValue
      JObj([id |-> JNum(4), name |-> JStr("k4"), functionName |-> JStr("X"),
            attributes |-> JArr(<<Attr("GI", None)>>)]),
      \* empty attributes list, null data
      JObj([id |-> JNum(6), name |-> JStr("k6"), functionName |-> JStr("X"),
            data |-> None, attributes |-> EmptyList]),
      \* no functionName, non-numeric Goal
      JObj([id |-> JNum(8), name |-> JStr("k8"),
            attributes |-> JArr(<<Attr("Goal", JStr("abc")), Attr("GI", JStr("MORE"))>>)]) }

Item(n, fname) ==
    [id |-> JNum(n), industry_function_map_id |-> JNum(n), function_name |-> JStr(fname),
     industry_name |-> JStr("ind"), subType |-> None, name |-> JStr("item"),
     description |-> None, useCaseId |-> JNum(n)]

BlobF1 ==
    JObj([name |-> JStr("F"),
          industry_function |-> JArr(<<JObj(Item(1, "F") @@ [createdAt |-> JStr("now")])>>)])
BlobF23 ==
    JObj([name |-> JStr("F"),
          industry_function |-> JArr(<<JObj(Item(2, "F")), JObj(Item(3, "F"))>>)])
BlobH == JObj([name |-> JStr("H"), industry_function |-> JArr(<<JObj(Item(4, "H"))>>)])
\* no industry_function key
BlobG == JObj([name |-> JStr("G")])
\* an item without useCaseId
BlobX ==
    JObj([name |-> JStr("X"),
          industry_function |-> JArr(<<JObj([id |-> JNum(5), name |-> JStr("item")])>>)])
\* a second named group with an item
BlobG5 == JObj([name |-> JStr("G"), industry_function |-> JArr(<<JObj(Item(5, "G"))>>)])
\* a group without a name
BlobAnon == JObj([industry_function |-> EmptyList])

\* The Functions feeds the service may return.
FunctionFeeds ==
    {<<>>, <<BlobF1>>, <<BlobH>>, <<BlobG, BlobH>>, <<BlobF1, BlobF23>>, <<BlobX, BlobF1>>,
     <<BlobF23, BlobH, BlobF1>>, <<BlobG, BlobH, BlobF1>>, <<BlobF1, BlobAnon>>,
     <<BlobF1, BlobF1>>, <<BlobF1, BlobG5>>}

ContextRecords ==
    { JObj([id |-> JNum(1), typeName |-> JStr("Context"), functionName |-> JStr("F"),
            functionCode |-> JStr("A"), name |-> JStr("c1"), attribute |-> JStr("col")]),
      JObj([id |-> JNum(2), typeName |-> JStr("Context"), functionName |-> JStr("F"),
            functionCode |-> JStr("B")]),
      \* a context without functionCode
      JObj([id |-> JNum(3), typeName |-> JStr("Context"), functionName |-> JStr("G")]),
      \* not a context
      JObj([id |-> JNum(4), typeName |-> JStr("Metric"), functionName |-> JStr("F"),
            functionCode |-> JStr("C")]),
      \* no typeName
      JObj([id |-> JNum(5), functionCode |-> JStr("A")]),
      \* a context without functionName
      JObj([id |-> JNum(6), typeName |-> JStr("Context"), functionCode |-> JStr("A")]) }

Envelope(v) == Http(200, TextJson(JObj([data |-> v])))
Failures == {TransportFailure, Http(500, TextEmpty)}

SigninAnswers ==
    Failures \cup {Http(200, TextEmpty), Http(200, TextJson(EmptyDict)),
                   Http(200, TextJson(JObj([token |-> JStr("t1")])))}
ClientTokenAnswers ==
    Failures \cup {Http(200, TextJson(EmptyDict)),
                   Http(200, TextJson(JObj([token |-> JStr("t2")])))}
KpiAnswers ==
    Failures \cup {Http(200, TextEmpty), Http(200, TextJson(EmptyDict))}
    \cup {Envelope(JArr(l)) : l \in SeqsUpTo(KpiRecords, MaxKpis)}
FunctionAnswers ==
    Failures \cup {Http(200, TextEmpty)}
    \cup {Envelope(JArr(l)) : l \in FunctionFeeds}
RoleAnswers ==
    Failures \cup {Http(200, TextEmpty), Envelope(EmptyDict),
                   Envelope(JObj([roles |-> JArr(<<JObj([id |-> JNum(1)])>>)])),
                   Envelope(JObj([roles |-> JArr(<<JObj([id |-> JNum(1), levelName |-> JStr("L1"),
                                                         role_display_name |-> JStr("Lead")])>>)]))}
ContextAnswers ==
    Failures \cup {Http(200, TextEmpty)}
    \cup {Envelope(JArr(l)) : l \in SeqsUpTo(ContextRecords, MaxContexts)}
DictionaryAnswers ==
    Failures \cup
    { Http(200, TextEmpty),
      Http(200, TextJson(EmptyList)),
      Http(200, TextJson(JArr(<<JObj([name |-> JStr("tbl")])>>))),
      Http(200, TextJson(JArr(<<JObj([id |-> JNum(1), name |-> JStr("tbl"),
            entity_attributes |-> JArr(<<JObj([id |-> JNum(1), name |-> JStr("col"),
                                               dataType |-> JStr("int")])>>)])>>))) }

InitRunner ==
    /\ _auth_token = NewClient._auth_token
    /\ _customer_auth_token = NewClient._customer_auth_token
    /\ last = NoCall
    /\ script \in {"query_model", "model_definition"}
    /\ pc = "authenticate"
    /\ exit_code = -1
    /\ http_log = <<>>
    /\ kpis = None
    /\ kpi_map = None
    /\ function_info = None
    /\ functions = None
    /\ contexts = None
    /\ context_map = None
    /\ f_codes = <<>>
    /\ f_next = 1

\* One log entry per request the call put on the wire.
Logged(op, arg, r) ==
    http_log' = http_log \o [i \in 1..Len(r.sent) |-> [op |-> op, arg |-> arg]]

\* Variant: the error is logged and the script carries on.
Fail_CarriesOn == pc' = pc /\ exit_code' = 1

\* `except Exception as e: log.error(...); sys.exit(1)`
Fail == pc' = "exit" /\ exit_code' = 1

RunAuthenticate ==
    /\ pc = "authenticate"
    /\ \E resp \in SigninAnswers :
        LET r == authenticate(Self, resp)
        IN /\ Apply("authenticate", None, resp, r)
           /\ Logged("authenticate", None, r)
           /\ IF r.out.k = "raise" THEN Fail
              ELSE pc' = "generate_customer_token" /\ UNCHANGED exit_code
    /\ UNCHANGED <<script, kpis, kpi_map, function_info, functions, contexts, context_map, f_codes, f_next>>

RunGenerateCustomerToken ==
    /\ pc = "generate_customer_token"
    /\ \E resp \in ClientTokenAnswers :
        LET r == generate_customer_token(Self, CUSTOMER_EMAIL, resp)
        IN /\ Apply("generate_customer_token", JStr(CUSTOMER_EMAIL), resp, r)
           /\ Logged("generate_customer_token", JStr(CUSTOMER_EMAIL), r)
           /\ IF r.out.k = "raise" THEN Fail
              ELSE pc' = "kpis" /\ UNCHANGED exit_code
    /\ UNCHANGED <<script, kpis, kpi_map, function_info, functions, contexts, context_map, f_codes, f_next>>

\* The KPI stage of either script: fetch, `kpis = kpi_dict.get("data", {})`,
\* then kpi_map unless kpis is empty (the warning branch).
RunKpis ==
    /\ pc = "kpis"
    /\ \E resp \in KpiAnswers :
        LET r == list_kpis(Self, JNum(INDUSTRY_ID), resp)
            got == IF r.out.k = "raise" THEN r.out ELSE PyGet(r.out.v, "data", EmptyDict)
            built == IF got.k = "raise" THEN got
                     ELSE IF ~Truthy(got.v) THEN Ok(None)
                     ELSE IF script = "query_model" THEN KpiSummaries(got.v.a)
                     ELSE KpiDefinitions(got.v.a)
        IN /\ Apply("list_kpis", JNum(INDUSTRY_ID), resp, r)
           /\ Logged("list_kpis", JNum(INDUSTRY_ID), r)
           /\ IF built.k = "raise"
              THEN Fail /\ UNCHANGED <<kpis, kpi_map>>
              ELSE /\ kpis' = got.v
                   /\ kpi_map' = built.v
                   /\ pc' = IF script = "query_model" THEN "functions" ELSE "contexts"
                   /\ UNCHANGED exit_code
    /\ UNCHANGED <<script, function_info, functions, contexts, context_map, f_codes, f_next>>

\* test_query_model.py lines 51-80.  The names are iterated in whatever order
\* the set yields them.
RunFunctions ==
    /\ pc = "functions"
    /\ \E resp \in FunctionAnswers :
        LET r == list_functions(Self, resp)
            names == IF r.out.k = "raise" THEN r.out ELSE FunctionNames(Items(kpis).v)
            blobs == IF names.k = "raise" THEN names ELSE Items(r.out.v)
            by_name == IF blobs.k = "raise" THEN blobs ELSE FunctionsByName(blobs.v)
        IN /\ Apply("list_functions", None, resp, r)
           /\ Logged("list_functions", None, r)
           /\ IF by_name.k = "raise"
              THEN Fail /\ UNCHANGED <<functions, function_info>>
              ELSE \E order \in Orders(names.v) :
                     LET info == FunctionInfo(order, by_name.v)
                     IN IF info.k = "raise"
                        THEN Fail /\ UNCHANGED <<functions, function_info>>
                        ELSE /\ functions' = r.out.v
                             /\ function_info' = JArr(info.v)
                             /\ pc' = "roles"
                             /\ UNCHANGED exit_code
    /\ UNCHANGED <<script, kpis, kpi_map, contexts, context_map, f_codes, f_next>>

\* test_query_model.py lines 82-95.  kpis, kpi_map, functions and
\* function_info have been printed and are not read again: they are dropped.
RunRoles ==
    /\ pc = "roles"
    /\ \E resp \in RoleAnswers :
        LET r == get_industry_details(Self, JNum(INDUSTRY_ID), resp)
            roles == IF r.out.k = "raise" THEN r.out ELSE Subscript(r.out.v, "roles")
            items == IF roles.k = "raise" THEN roles ELSE Items(roles.v)
            trimmed == IF items.k = "raise" THEN items ELSE TrimRoles(items.v)
        IN /\ Apply("get_industry_details", JNum(INDUSTRY_ID), resp, r)
           /\ Logged("get_industry_details", JNum(INDUSTRY_ID), r)
           /\ IF trimmed.k = "raise" THEN Fail
              ELSE pc' = "contexts" /\ UNCHANGED exit_code
    /\ kpis' = None
    /\ kpi_map' = None
    /\ functions' = None
    /\ function_info' = None
    /\ UNCHANGED <<script, contexts, context_map, f_codes, f_next>>

\* The context stage of either script, up to the list of codes the
\* dictionary loop will iterate: list(dict.fromkeys(...)) in
\* test_query_model.py, set(function_codes) in test_model_definition.py.
RunContexts ==
    /\ pc = "contexts"
    /\ \E resp \in ContextAnswers :
        LET r == industry_metric_functions(Self, JNum(INDUSTRY_ID), resp)
            records == IF r.out.k = "raise" THEN r.out ELSE Items(r.out.v)
            ctxs == IF records.k = "raise" THEN records ELSE Ok(FilterContexts(records.v))
            built == IF ctxs.k = "raise" THEN ctxs
                     ELSE IF script = "query_model" THEN ContextSummaries(ctxs.v)
                     ELSE ContextMap(ctxs.v)
        IN /\ Apply("industry_metric_functions", JNum(INDUSTRY_ID), resp, r)
           /\ Logged("industry_metric_functions", JNum(INDUSTRY_ID), r)
           /\ IF built.k = "raise"
              THEN Fail /\ UNCHANGED <<contexts, context_map, f_codes>>
              ELSE /\ contexts' = JArr(ctxs.v)
                   /\ context_map' = IF script = "query_model" THEN JArr(built.v) ELSE built.v
                   /\ f_codes' \in CodeOrders(script, FunctionCodes(ctxs.v))
                   /\ pc' = "dictionaries"
                   /\ UNCHANGED exit_code
    /\ kpis' = None
    /\ kpi_map' = None
    /\ UNCHANGED <<script, function_info, functions, f_next>>

\* One iteration of the dictionary loop of either script.
RunDictionary ==
    /\ pc = "dictionaries"
    /\ f_next <= Len(f_codes)
    /\ \E resp \in DictionaryAnswers :
        LET f_code == f_codes[f_next]
            r == get_dictionary(Self, f_code, resp)
            ds == IF r.out.k = "raise" THEN r.out ELSE Items(r.out.v)
            shaped == IF ds.k = "raise" THEN ds
                      ELSE IF script = "query_model" THEN TrimDictionary(ds.v)
                      ELSE DictMap(ds.v)
        IN /\ Apply("get_dictionary", f_code, resp, r)
           /\ Logged("get_dictionary", f_code, r)
           /\ IF shaped.k = "raise" THEN Fail /\ UNCHANGED f_next
              ELSE /\ f_next' = f_next + 1
                   /\ UNCHANGED <<pc, exit_code>>
    /\ UNCHANGED <<script, kpis, kpi_map, function_info, functions, contexts, context_map, f_codes>>

\* main() returns after the last dictionary: exit status 0.
RunEnd ==
    /\ pc = "dictionaries"
    /\ f_next > Len(f_codes)
    /\ pc' = "exit"
    /\ exit_code' = 0
    /\ UNCHANGED <<_auth_token, _customer_auth_token, last, script, http_log, kpis, kpi_map,
                   function_info, functions, contexts, context_map, f_codes, f_next>>

NextRunner ==
    \/ RunAuthenticate
    \/ RunGenerateCustomerToken
    \/ RunKpis
    \/ RunFunctions
    \/ RunRoles
    \/ RunContexts
    \/ RunDictionary
    \/ RunEnd

SpecRunner == InitRunner /\ [][NextRunner]_vars

\* ------------------------------------------------------------------------
\* Properties of the runner scripts (specification SpecRunner)
\* ------------------------------------------------------------------------
\* The function codes get_dictionary has been called with, in call order.
DictCalls ==
    LET calls == SelectSeq(http_log, LAMBDA e : e.op = "get_dictionary")
    IN [i \in 1..Len(calls) |-> calls[i].arg]

\* The code each context carries (null when it has none), in feed order.
CarriedCodes == [i \in 1..Len(contexts.a) |-> DictGet(contexts.a[i], "functionCode", None)]
\* Index of the first context carrying code c.
FirstCarrier(c) == CHOOSE i \in 1..Len(CarriedCodes) :
                       CarriedCodes[i] = c /\ \A j \in 1..(i - 1) : CarriedCodes[j] # c

\* C6: the dictionary stage calls get_dictionary at most once per code, only
\* with codes some context carries, for every such code once the run
\* completes, and in test_query_model.py in order of first appearance.
C6_Deduplication ==
    pc \in {"dictionaries", "exit"} /\ contexts # None =>
        /\ \A i, j \in 1..Len(DictCalls) : DictCalls[i] = DictCalls[j] => i = j
        /\ \A i \in 1..Len(DictCalls) : \E k \in 1..Len(CarriedCodes) : CarriedCodes[k] = DictCalls[i]
        /\ exit_code = 0 =>
             \A k \in 1..Len(CarriedCodes) : \E i \in 1..Len(DictCalls) : DictCalls[i] = CarriedCodes[k]
        /\ script = "query_model" =>
             /\ \A i, j \in 1..Len(DictCalls) :
                    i < j => FirstCarrier(DictCalls[i]) < FirstCarrier(DictCalls[j])
             /\ \A i \in 1..Len(DictCalls), k \in 1..Len(CarriedCodes) :
                    k < FirstCarrier(DictCalls[i]) =>
                        \E h \in 1..i : DictCalls[h] = CarriedCodes[k]

C6_Witness ==
    /\ script = "query_model"
    /\ exit_code = 0
    /\ contexts # None
    /\ CarriedCodes = <<JStr("A"), JStr("A"), JStr("B")>>
    /\ DictCalls = <<JStr("A"), JStr("B")>>

\* The KPI list and Functions feed the function stage worked on.
StageKpis == Items(kpis).v
StageNames == {StageKpis[i].o["functionName"] : i \in 1..Len(StageKpis)}
\* The items (group index, item index) of the groups of feed whose name some
\* KPI carries, and the projection of one of them onto the kept fields.
MatchedItems(feed) ==
    UNION {{<<b, i>> : i \in 1..Len(feed[b].o["industry_function"].a)} :
           b \in {b \in 1..Len(feed) : /\ feed[b].o["name"] \in StageNames
                                       /\ "industry_function" \in DOMAIN feed[b].o}}
Projected(feed, bi) ==
    [f \in FieldSet |-> feed[bi[1]].o["industry_function"].a[bi[2]].o[f]]
\* The feed is well formed where the join reads it: every group is named and
\* every item of a matched group has the projected fields.
JoinReadable(feed) ==
    \A b \in 1..Len(feed) :
        /\ "name" \in DOMAIN feed[b].o
        /\ (feed[b].o["name"] \in StageNames /\ "industry_function" \in DOMAIN feed[b].o)
             => \A i \in 1..Len(feed[b].o["industry_function"].a) :
                    FieldSet \subseteq DOMAIN feed[b].o["industry_function"].a[i].o

\* C7: function_info holds exactly the items (each as often as the feed
\* lists it) of the groups whose name is some KPI's functionName; unmatched
\* names and unmatched groups add nothing and never make the function stage
\* fail.
C7_JoinMissSilence ==
    /\ (pc = "roles" /\ function_info # None) =>
          LET feed == Items(functions).v
              info == function_info.a
          IN /\ Len(info) = Cardinality(MatchedItems(feed))
             /\ \A bi \in MatchedItems(feed) :
                    Cardinality({i \in 1..Len(info) : info[i].o = Projected(feed, bi)})
                    = Cardinality({bj \in MatchedItems(feed) :
                                     Projected(feed, bj) = Projected(feed, bi)})
    /\ (last.op = "list_functions" /\ last.out.k = "ok" /\ Items(last.out.v).k = "ok"
        /\ JoinReadable(Items(last.out.v).v))
          => pc = "roles"

C7_Witness ==
    /\ pc = "roles"
    /\ function_info # None
    /\ StageNames = {JStr("F"), JStr("X")}
    /\ Items(functions).v = <<BlobF23, BlobH, BlobF1>>
    /\ Len(function_info.a) = 3

\* The KPI list of the payload the KPI stage has just fetched.
FetchedKpis == last.out.v.o["data"].a
AttrValue(kpi, name) ==
    LET attributes == DictGet(kpi, "attributes", EmptyList).a
    IN IF \E i \in 1..Len(attributes) : attributes[i].o["attributeName"] = JStr(name)
       THEN LET i == CHOOSE i \in 1..Len(attributes) :
                        /\ attributes[i].o["attributeName"] = JStr(name)
                        /\ \A j \in (i + 1)..Len(attributes) :
                               attributes[j].o["attributeName"] # JStr(name)
            IN DictGet(attributes[i], "defaultValue", None)
       ELSE None
\* Nothing but absent or null attributes could make Pass A fail on this KPI:
\* its data is absent or text, its Goal is null or numeric text.
OtherwiseSound(kpi) ==
    /\ "data" \in DOMAIN kpi.o => kpi.o["data"].t = "str"
    /\ AttrValue(kpi, "Goal") \in {None, JStr("42")}

\* C8: in Pass A an absent or null Goal, GI or UOM Display Name yields None in
\* the corresponding business_rules field (all three None for a KPI without
\* attributes) and never raises.
C8_AbsentAttributesYieldNone ==
    (/\ script = "model_definition"
     /\ last.op = "list_kpis"
     /\ last.out.k = "ok"
     /\ last.out.v.t = "obj"
     /\ "data" \in DOMAIN last.out.v.o
     /\ \A i \in 1..Len(FetchedKpis) : OtherwiseSound(FetchedKpis[i]))
        => /\ pc # "exit"
           /\ \A i \in 1..Len(FetchedKpis) :
                LET kpi == FetchedKpis[i]
                    rules == kpi_map.o[kpi.o["id"].n].o["business_rules"].o
                IN /\ AttrValue(kpi, "Goal") = None => rules["goal"] = None
                   /\ AttrValue(kpi, "GI") = None => rules["is_higher_better"] = None
                   /\ AttrValue(kpi, "UOM Display Name") = None
                        => rules["unit_of_measure"] = None

\* C9: the stages run in a fixed order, each at most once (the dictionary
\* fetches last, one after another); a client call that raises ends the run
\* with exit status 1, and after that no further HTTP call is logged.
StageRank(op) ==
    CASE op = "authenticate" -> 1
      [] op = "generate_customer_token" -> 2
      [] op = "list_kpis" -> 3
      [] op = "list_functions" -> 4
      [] op = "get_industry_details" -> 5
      [] op = "industry_metric_functions" -> 6
      [] op = "get_dictionary" -> 7
      [] OTHER -> 0
StagesInOrder ==
    /\ \A i \in 1..Len(http_log) : StageRank(http_log[i].op) > 0
    /\ Len(http_log) > 0 => http_log[1].op = "authenticate"
    /\ \A i \in 1..(Len(http_log) - 1) :
          \/ StageRank(http_log[i].op) < StageRank(http_log[i + 1].op)
          \/ http_log[i].op = "get_dictionary" /\ http_log[i + 1].op = "get_dictionary"
    /\ \A i \in 1..(Len(http_log) - 1) :
          LET a == http_log[i].op
              b == http_log[i + 1].op
          IN \/ StageRank(b) = StageRank(a) + 1
             \/ a = "get_dictionary" /\ b = "get_dictionary"
             \/ script = "model_definition" /\ a = "list_kpis" /\ b = "industry_metric_functions"
C9_FailStop ==
    /\ [](/\ StagesInOrder
          /\ last.out.k = "raise" => (pc = "exit" /\ exit_code = 1)
          /\ pc = "exit" <=> exit_code \in {0, 1}
          /\ exit_code = 1 => last.op = http_log[Len(http_log)].op)
    /\ [][exit_code = 1 => http_log' = http_log]_vars

C9_Witness ==
    /\ script = "query_model"
    /\ pc = "exit"
    /\ exit_code = 1
    /\ last.op = "list_functions"
    /\ last.out = Raise("HTTPStatusError")
    /\ Len(http_log) = 4

\* The KPI's data field cannot be parsed as JSON: absent, null, or text that
\* is not JSON.
DataUnparsable(kpi) ==
    \/ "data" \notin DOMAIN kpi.o
    \/ kpi.o["data"] = None
    \/ kpi.o["data"].t = "str" /\ kpi.o["data"].s \notin {"{}", "null", FORMULA_JSON}
\* Nothing but the data field could make Pass A fail on this KPI: Goal is
\* null or numeric text and every GI entry has a text value.
AttributesSound(kpi) ==
    LET attributes == DictGet(kpi, "attributes", EmptyList).a
    IN /\ AttrValue(kpi, "Goal") \in {None, JStr("42")}
       /\ \A i \in 1..Len(attributes) :
              attributes[i].o["attributeName"] = JStr("GI")
                  => DictGet(attributes[i], "defaultValue", None).t = "str"

\* C11: in Pass A a KPI whose data is malformed, null or absent gets a
\* kpi_map entry built from empty details (description "N/A", no source
\* table), and the KPI loop does not fail on it.
C11_UnparsableDataTolerated ==
    (/\ script = "model_definition"
     /\ last.op = "list_kpis"
     /\ last.out.k = "ok"
     /\ last.out.v.t = "obj"
     /\ "data" \in DOMAIN last.out.v.o
     /\ \A i \in 1..Len(FetchedKpis) :
            /\ AttributesSound(FetchedKpis[i])
            /\ DataUnparsable(FetchedKpis[i]) \/ FetchedKpis[i].o["data"] = JStr(FORMULA_JSON))
        => /\ pc # "exit"
           /\ \A i \in 1..Len(FetchedKpis) :
                LET kpi == FetchedKpis[i]
                IN DataUnparsable(kpi) =>
                     /\ kpi.o["id"].n \in DOMAIN kpi_map.o
                     /\ kpi_map.o[kpi.o["id"].n].o["definition"] =
                          JObj([description |-> JStr("N/A"), source_table |-> None])

\* The records the context stage fetched, and the contexts among them.
FetchedRecords == Items(last.out.v).v
FetchedContexts == FilterContexts(FetchedRecords)

\* C12: in Pass B the context map has an entry for exactly the fetched records
\* whose typeName is "Context", and building it does not fail when a record
\* lacks any field other than id.
C12_ContextEntriesOptionalFields ==
    (/\ script \in {"query_model", "model_definition"}
     /\ last.op = "industry_metric_functions"
     /\ last.out.k = "ok"
     /\ Items(last.out.v).k = "ok"
     /\ \A i \in 1..Len(FetchedContexts) : "id" \in DOMAIN FetchedContexts[i].o)
        => /\ exit_code # 1
           /\ IF script = "query_model"
              THEN /\ Len(context_map.a) = Len(FetchedContexts)
                   /\ \A i \in 1..Len(FetchedContexts) :
                          context_map.a[i].o["id"] = FetchedContexts[i].o["id"]
              ELSE DOMAIN context_map.o =
                       {FetchedContexts[i].o["id"].n : i \in 1..Len(FetchedContexts)}

\* How often x occurs in the sequence xs.
Occurrences(xs, x) == Cardinality({i \in 1..Len(xs) : xs[i] = x})
\* The two sequences hold the same elements equally often.
SameElements(xs, ys) ==
    /\ Len(xs) = Len(ys)
    /\ \A i \in 1..Len(xs) : Occurrences(xs, xs[i]) = Occurrences(ys, xs[i])
\* The function stage has built function_info from `kpis` and `functions`, and
\* every function_info a run over these same inputs can build.
FunctionInfoBuilt == pc = "roles" /\ function_info # None
RerunFunctionInfos ==
    {FunctionInfo(order, FunctionsByName(Items(functions).v).v).v : order \in Orders(StageNames)}
\* The context stage has chosen the codes to fetch from `contexts`, and every
\* sequence of codes a run over these same inputs can choose.
FetchOrderChosen == pc \in {"dictionaries", "exit"} /\ contexts # None
RerunFetchOrders == CodeOrders(script, CarriedCodes)

PartnerTokenKept == _auth_token = last.pre._auth_token
CustomerTokenKept == _customer_auth_token = last.pre._customer_auth_token

\* C14: a failed authenticate or generate_customer_token (transport error,
\* non-2xx, or no token in the response) leaves both cached tokens as they
\* were; a successful authenticate stores the response's token as the partner
\* token and leaves the customer token; a successful generate_customer_token
\* stores the response's token as the customer token and leaves the partner
\* token; no gateway operation changes either token.
C14_IndependentTokenTracks ==
    /\ (last.op \in AuthOps /\ last.out.k = "raise")
          => PartnerTokenKept /\ CustomerTokenKept
    /\ (last.op \in AuthOps /\ (~LastIs2xx \/ ~LastCarriesToken))
          => last.out.k = "raise"
    /\ (last.op = "authenticate" /\ last.out.k = "ok")
          => /\ _auth_token = last.resp.text.j.o["token"]
             /\ CustomerTokenKept
    /\ (last.op = "generate_customer_token" /\ last.out.k = "ok")
          => /\ _customer_auth_token = last.resp.text.j.o["token"]
             /\ PartnerTokenKept
    /\ last.op \in GatewayOps \cup {"_request"}
          => PartnerTokenKept /\ CustomerTokenKept

\* A second sign-in replaced the partner token while a customer token was
\* cached, and the customer token is still the one cached before.
C14_Witness ==
    /\ last.op = "authenticate"
    /\ last.out.k = "ok"
    /\ last.pre._auth_token = JStr("t1")
    /\ _auth_token = JStr("t2")
    /\ last.pre._customer_auth_token = JStr("t2")
    /\ _customer_auth_token = JStr("t2")

====
